---- MODULE Spec2Model ----
(***************************************************************************)
(* Headshot Studio: the project workflow engine (ProjectService), the     *)
(* tRPC routers that write the same Project rows, and the provider        *)
(* wrappers (ReplicateService, ImageStorageService) they call.            *)
(*                                                                         *)
(* Tables are the Prisma tables the code writes.  Rows of uploadedPhoto   *)
(* are kept as a bag (row ids play no role in any handler); the other     *)
(* tables are sequences in creation (id) order.                           *)
(***************************************************************************)
EXTENDS Integers, Sequences, FiniteSets, Bags, TLC

VARIABLES projects, nextProjectId, photos, trainingModels, headshots,
          nextHeadshotId, coaching, jobs, full, inflight, last

vars == <<projects, nextProjectId, photos, trainingModels, headshots,
          nextHeadshotId, coaching, jobs, full, inflight, last>>

----------------------------------------------------------------------------
(* Program constants *)

MinPhotos == 10
TopPickLimit == 20
PreviewOutputs == 3
DefaultPerStyle == 10
EnoughPhotos == 15

(* Bounds of the model *)

MaxProjects == 1
MaxPhotos == 10
MaxTrainings == 1
MaxHeadshots == 4
MaxCoaching == 2
OddPerStyle == 7
MaxRetrain == 2
MaxBatch == 15
MaxCalls == 2
PairPerStyle == 2
MaxFullRows == 40

NULL == "null"

Users == {1, 2}
ProjectIds == 1..MaxProjects

(* ProjectStatus enum of the spec / @headshot-studio/database *)
ProjectStatus ==
  {"uploading", "analyzing", "ready", "training", "generating_preview",
   "preview_ready", "generating_full", "completed", "failed"}

ModelStatus == {"pending", "training", "completed", "failed"}

----------------------------------------------------------------------------
(* Table helpers *)

RECURSIVE SumCopies(_, _)
SumCopies(B, S) ==
  IF S = {} THEN 0
  ELSE LET r == CHOOSE x \in S : TRUE
       IN CopiesIn(r, B) + SumCopies(B, S \ {r})

(* project.uploadedPhotos (include) *)
PhotoRowsOf(p) == {r \in BagToSet(photos) : r.projectId = p}
uploadedPhotosLength(p) == SumCopies(photos, PhotoRowsOf(p))
approvedPhotosLength(p) ==
  SumCopies(photos, {r \in PhotoRowsOf(p) : r.isApproved})
TotalPhotoRows == BagCardinality(photos)

(* a lookup that forgets the userId filter *)
findFirstAnyUser(p, u) == p \in DOMAIN projects

(* prisma.project.findFirst({ where: { id, userId } }) returns a row:
   projects maps the ids of the rows that exist to the rows *)
findFirst(p, u) == p \in DOMAIN projects /\ projects[p].userId = u

(* project.trainingModel (include): the TrainingModel row associated with
   the project; a later create replaces the association *)
TrainingIdxOf(p) ==
  LET S == {i \in 1..Len(trainingModels) : trainingModels[i].projectId = p}
  IN IF S = {} THEN 0 ELSE CHOOSE i \in S : \A j \in S : j <= i

HeadshotIdxOf(p) == {i \in 1..Len(headshots) : headshots[i].projectId = p}

(* project p exists and belongs to user u *)
Owns(u, p) == p \in DOMAIN projects /\ projects[p].userId = u

(* project p has a TrainingModel and it is completed *)
ModelCompleted(p) ==
  /\ TrainingIdxOf(p) # 0
  /\ trainingModels[TrainingIdxOf(p)].status = "completed"

(* onDelete cascade of the Project relations *)
CascadePhotos(p) ==
  LET S == BagToSet(photos)
  IN [r \in {x \in S : x.projectId # p} |-> CopiesIn(r, photos)]

(* what the latest call was and returned; results holds the individual
   results of the batch analysis, for the one handler that makes one *)
Outcome(op, p, u, res, calls) ==
  [op |-> op, projectId |-> p, userId |-> u, result |-> res, calls |-> calls,
   results |-> <<>>]

----------------------------------------------------------------------------
(* qualityScore is null until an analysis writes sum / n *)
NoScore == [sum |-> 0, n |-> 0]

(* the generateFullSet call in flight, if any; status is the status of the
   project row the call read at its start *)
NoCall ==
  [pc |-> "idle", projectId |-> 0, userId |-> 0, status |-> NULL,
   styles |-> <<>>, numPerStyle |-> 0, k |-> 0, allHeadshots |-> <<>>,
   pending |-> {}, saved |-> <<>>]

(* State after construction: empty tables *)

Init ==
  /\ projects = <<>>
  /\ nextProjectId = 1
  /\ photos = EmptyBag
  /\ trainingModels = <<>>
  /\ headshots = <<>>
  /\ nextHeadshotId = 1
  /\ coaching = <<>>
  /\ jobs = 0
  /\ full = NoCall
  /\ inflight = {}
  /\ last = Outcome("init", 0, 0, "ok", {})

NewProject(u) ==
  [userId |-> u, status |-> "uploading", photoCount |-> 0,
   qualityScore |-> NoScore, totalGenerated |-> 0, completedAt |-> FALSE,
   trainingId |-> 0, modelVersion |-> NULL]

(* ProjectService.createProject (= projectRouter.create,
   headshotRouter.createProject): autoincrement id *)
createProject(u) ==
  /\ nextProjectId <= MaxProjects
  /\ projects' = [q \in DOMAIN projects \cup {nextProjectId} |->
                    IF q = nextProjectId THEN NewProject(u) ELSE projects[q]]
  /\ nextProjectId' = nextProjectId + 1
  /\ last' = Outcome("createProject", nextProjectId, u, "ok", {})
  /\ UNCHANGED <<inflight, photos, trainingModels, headshots, nextHeadshotId, coaching,
                 jobs, full>>

(* ProjectService.getProject *)
getProjectResult(p, u) == IF ~findFirst(p, u) THEN "Project not found" ELSE "ok"

getProject(p, u) ==
  /\ last' = Outcome("getProject", p, u, getProjectResult(p, u), {})
  /\ UNCHANGED <<inflight, projects, nextProjectId, photos, trainingModels, headshots,
                 nextHeadshotId, coaching, jobs, full>>

(* ProjectService.updateProject: only name/style/background/customBrand are
   written, none of which is part of the modelled row *)
updateProjectResult(p, u) ==
  IF ~findFirst(p, u) THEN "Project not found" ELSE "ok"

updateProject(p, u) ==
  /\ last' = Outcome("updateProject", p, u, updateProjectResult(p, u), {})
  /\ UNCHANGED <<inflight, projects, nextProjectId, photos, trainingModels, headshots, nextHeadshotId,
               coaching, jobs, full>>

----------------------------------------------------------------------------
(* Vision provider (ClaudeVisionService) *)

Dimensions == {"lighting", "background", "expression", "angle", "focus"}

(* the fixed result analyzePhoto returns when the provider call or the
   parse fails; scores are kept in tenths (7.0 = 70) *)
DefaultAnalysis ==
  [qualityScore |-> 70, feedback |-> [d \in Dimensions |-> "good"],
   approved |-> TRUE]

PoorAnalysis ==
  [qualityScore |-> 40,
   feedback |-> [d \in Dimensions |->
                   IF d = "lighting" THEN "poor" ELSE "good"],
   approved |-> FALSE]

(* the vision provider's answer: ok = FALSE when the call throws or the
   answer cannot be parsed, else body is the parsed JSON *)
VisionOk(a) == [ok |-> TRUE, body |-> a]
VisionError == [ok |-> FALSE, body |-> PoorAnalysis]
(* an answer that flags the dimensions of D as poor *)
PoorIn(D) ==
  [qualityScore |-> 40,
   feedback |-> [d \in Dimensions |-> IF d \in D THEN "poor" ELSE "good"],
   approved |-> FALSE]

VisionSamples == {VisionOk(DefaultAnalysis), VisionOk(PoorAnalysis), VisionError}

(* an analyzePhoto without the catch: it uses whatever the call left *)
analyzePhotoUnguarded(resp) == resp.body

(* ClaudeVisionService.analyzePhoto *)
analyzePhoto(resp) == IF resp.ok THEN resp.body ELSE DefaultAnalysis

RECURSIVE SumScores(_)
SumScores(rs) ==
  IF rs = <<>> THEN 0 ELSE Head(rs).qualityScore + SumScores(Tail(rs))

issues(rs, d) == Cardinality({i \in 1..Len(rs) : rs[i].feedback[d] = "poor"})

Suggestion(t, pr) == [type |-> t, priority |-> pr]

(* generateCoachingSuggestions asking for more photos up to and including
   15 *)
generateCoachingSuggestionsUpTo(rs) ==
  LET totalPhotos == Len(rs)
      Over(d) == 10 * issues(rs, d) > 3 * totalPhotos
  IN  (IF Over("lighting") THEN <<Suggestion("LIGHTING", 1)>> ELSE <<>>)
   \o (IF Over("background") THEN <<Suggestion("BACKGROUND", 1)>> ELSE <<>>)
   \o (IF Over("expression") THEN <<Suggestion("EXPRESSION", 2)>> ELSE <<>>)
   \o (IF Over("angle") THEN <<Suggestion("ANGLE", 2)>> ELSE <<>>)
   \o (IF totalPhotos <= 15 THEN <<Suggestion("QUANTITY", 1)>> ELSE <<>>)

(* ClaudeVisionService.generateCoachingSuggestions:
   issues.x > totalPhotos * 0.3 is compared in tenths *)
generateCoachingSuggestions(rs) ==
  LET totalPhotos == Len(rs)
      Over(d) == 10 * issues(rs, d) > 3 * totalPhotos
  IN  (IF Over("lighting") THEN <<Suggestion("LIGHTING", 1)>> ELSE <<>>)
   \o (IF Over("background") THEN <<Suggestion("BACKGROUND", 1)>> ELSE <<>>)
   \o (IF Over("expression") THEN <<Suggestion("EXPRESSION", 2)>> ELSE <<>>)
   \o (IF Over("angle") THEN <<Suggestion("ANGLE", 2)>> ELSE <<>>)
   \o (IF totalPhotos < 15 THEN <<Suggestion("QUANTITY", 1)>> ELSE <<>>)

RECURSIVE GCD(_, _)
GCD(a, b) == IF b = 0 THEN a ELSE GCD(b, a % b)

(* the exact quotient sum / n, in lowest terms *)
Quotient(sum, n) ==
  LET g == GCD(sum, n) IN [sum |-> sum \div g, n |-> n \div g]

(* ClaudeVisionService.analyzePhotoSet: every photo is analysed again;
   averageScore = sum of the scores / results.length *)
analyzePhotoSet(resps) ==
  LET results == [i \in 1..Len(resps) |-> analyzePhoto(resps[i])]
  IN [individualResults |-> results,
      averageScore |-> Quotient(SumScores(results), Len(results)),
      coachingSuggestions |-> generateCoachingSuggestions(results)]

----------------------------------------------------------------------------
(* ProjectService.uploadPhoto.  upl: does cloudinary.uploadFromUrl succeed;
   resp: the vision provider's answer *)
uploadPhotoResult(p, u, upl) ==
  IF ~findFirst(p, u) THEN "Project not found"
  ELSE IF ~upl THEN "Upload from URL failed"
  ELSE "ok"

uploadPhoto(p, u, upl, resp) ==
  LET res == uploadPhotoResult(p, u, upl)
      analysis == analyzePhoto(resp)
      row == [projectId |-> p, qualityScore |-> analysis.qualityScore,
              isApproved |-> analysis.approved]
  IN
  /\ IF res = "ok"
     THEN /\ photos' = photos (+) SetToBag({row})
          /\ projects' = [projects EXCEPT ![p].photoCount = @ + 1]
          /\ last' = Outcome("uploadPhoto", p, u, res, {"storage", "vision"})
     ELSE /\ UNCHANGED <<photos, projects>>
          /\ last' = Outcome("uploadPhoto", p, u, res,
                             IF res = "Project not found" THEN {} ELSE {"storage"})
  /\ UNCHANGED <<inflight, nextProjectId, trainingModels, headshots, nextHeadshotId, coaching, jobs, full>>

(* ProjectService.analyzeProjectPhotos.  resps: the vision provider's answer
   for each of the project's photos *)
analyzeProjectPhotosResult(p, u) ==
  IF ~findFirst(p, u) THEN "Project not found"
  ELSE IF uploadedPhotosLength(p) = 0 THEN "No photos uploaded yet"
  ELSE "ok"

analyzeProjectPhotos(p, u, resps) ==
  LET res == analyzeProjectPhotosResult(p, u)
      analysis == analyzePhotoSet(resps)
      rows == [i \in 1..Len(analysis.coachingSuggestions) |->
                 [projectId |-> p,
                  type |-> analysis.coachingSuggestions[i].type,
                  priority |-> analysis.coachingSuggestions[i].priority,
                  isResolved |-> FALSE]]
  IN
  /\ IF res = "ok"
     THEN /\ Len(resps) = uploadedPhotosLength(p)
          /\ coaching' = coaching \o rows
          /\ projects' = [projects EXCEPT
                            ![p].qualityScore = analysis.averageScore,
                            ![p].status = "ready"]
          /\ last' = [Outcome("analyzeProjectPhotos", p, u, res, {"vision"})
                        EXCEPT !.results = analysis.individualResults]
     ELSE /\ UNCHANGED <<coaching, projects>>
          /\ last' = Outcome("analyzeProjectPhotos", p, u, res, {})
  /\ UNCHANGED <<inflight, nextProjectId, photos, trainingModels, headshots, nextHeadshotId, jobs, full>>

(* projectRouter.analyzePhotos *)
routerAnalyzePhotos(p, u) ==
  LET res == IF ~findFirst(p, u) THEN "Project not found" ELSE "ok"
  IN
  /\ IF res = "ok"
     THEN /\ projects' = [projects EXCEPT ![p].status = "analyzing"]
          /\ last' = Outcome("router.analyzePhotos", p, u, res,
                             IF uploadedPhotosLength(p) = 0 THEN {}
                             ELSE {"vision"})
     ELSE /\ UNCHANGED projects
          /\ last' = Outcome("router.analyzePhotos", p, u, res, {})
  /\ UNCHANGED <<inflight, nextProjectId, photos, trainingModels, headshots, nextHeadshotId, coaching,
               jobs, full>>

----------------------------------------------------------------------------
(* Training provider (ReplicateService) *)

ProviderStatus == {"starting", "processing", "succeeded", "failed", "canceled"}

(* training.metrics: <<step, total_steps>>, <<0, 0>> when absent *)
MetricSamples == {<<0, 0>>, <<1, 4>>, <<3, 4>>}

(* training.output?.version: absent, or a model version *)
VersionSamples == {NULL, "v1"}

(* what replicate.trainings.get returns; ok = FALSE when it throws *)
Trainings ==
  [ok : {TRUE}, status : ProviderStatus, metrics : MetricSamples,
   version : VersionSamples]
TrainingsGetError ==
  [ok |-> FALSE, status |-> "failed", metrics |-> <<0, 0>>, version |-> NULL]

(* ReplicateService.calculateProgress *)
calculateProgress(training) ==
  IF training.status = "succeeded" THEN 100
  ELSE IF training.status \in {"failed", "canceled"} THEN 0
  ELSE IF training.metrics[1] # 0 /\ training.metrics[2] # 0
       THEN (training.metrics[1] * 100) \div training.metrics[2]
  ELSE IF training.status = "processing" THEN 50
  ELSE IF training.status = "starting" THEN 10
  ELSE 0

(* ReplicateService.getTrainingStatus *)
getTrainingStatus(training) ==
  [status |-> training.status,
   progress |-> calculateProgress(training),
   modelVersion |-> training.version]

(* startTraining without the photo-count check *)
startTrainingResultNoMinimum(p, u, trainOk) ==
  IF ~findFirst(p, u) THEN "Project not found"
  ELSE IF ~trainOk THEN "Failed to start model training"
  ELSE "ok"

(* startTraining that only accepts a project in status ready *)
startTrainingResultWhenReady(p, u, trainOk) ==
  IF ~findFirst(p, u) THEN "Project not found"
  ELSE IF projects[p].status # "ready" THEN "Project not ready"
  ELSE IF uploadedPhotosLength(p) < MinPhotos
       THEN "Need at least 10 photos to train model"
  ELSE IF ~trainOk THEN "Failed to start model training"
  ELSE "ok"

(* ProjectService.startTraining.  trainOk: does replicate.trainModel return *)
startTrainingResult(p, u, trainOk) ==
  IF ~findFirst(p, u) THEN "Project not found"
  ELSE IF uploadedPhotosLength(p) < MinPhotos
       THEN "Need at least 10 photos to train model"
  ELSE IF ~trainOk THEN "Failed to start model training"
  ELSE "ok"

ProviderCalled(res) ==
  IF res \in {"ok", "Failed to start model training"} THEN {"training"} ELSE {}

startTraining(p, u, trainOk) ==
  LET res == startTrainingResult(p, u, trainOk)
      trainingModel ==
        [projectId |-> p, replicateId |-> jobs + 1, status |-> "training",
         progress |-> 0, modelUrl |-> NULL, completedAt |-> FALSE]
  IN
  /\ IF res = "ok"
     THEN /\ jobs' = jobs + 1
          /\ trainingModels' = Append(trainingModels, trainingModel)
          /\ projects' = [projects EXCEPT ![p].status = "generating_preview"]
     ELSE UNCHANGED <<jobs, trainingModels, projects>>
  /\ last' = Outcome("startTraining", p, u, res, ProviderCalled(res))
  /\ UNCHANGED <<inflight, nextProjectId, photos, headshots, nextHeadshotId, coaching, full>>

(* projectRouter.startTraining *)
routerStartTraining(p, u, trainOk) ==
  LET res == startTrainingResult(p, u, trainOk)
  IN
  /\ IF res = "ok"
     THEN /\ jobs' = jobs + 1
          /\ projects' = [projects EXCEPT ![p].status = "training",
                                          ![p].trainingId = jobs + 1]
     ELSE UNCHANGED <<jobs, projects>>
  /\ last' = Outcome("router.startTraining", p, u, res, ProviderCalled(res))
  /\ UNCHANGED <<inflight, nextProjectId, photos, trainingModels, headshots, nextHeadshotId, coaching, full>>

(* status mapping of ProjectService.checkTrainingProgress *)
MapStatus(s) ==
  IF s = "succeeded" THEN "completed"
  ELSE IF s = "failed" THEN "failed"
  ELSE "training"

(* ProjectService.checkTrainingProgress.  training: what
   replicate.trainings.get returns.  A Prisma update leaves a
   field whose value is undefined as it was. *)
checkTrainingProgressResult(p, u, training) ==
  IF ~findFirst(p, u) \/ TrainingIdxOf(p) = 0 THEN "Training not started"
  ELSE IF ~training.ok THEN "Failed to check training status"
  ELSE "ok"

checkTrainingProgress(p, u, training) ==
  LET res == checkTrainingProgressResult(p, u, training)
      i == TrainingIdxOf(p)
      status == getTrainingStatus(training)
  IN
  /\ IF res = "ok"
     THEN trainingModels' =
            [trainingModels EXCEPT
               ![i].status = MapStatus(status.status),
               ![i].progress = status.progress,
               ![i].modelUrl =
                  IF status.modelVersion = NULL THEN @ ELSE status.modelVersion,
               ![i].completedAt =
                  IF status.status = "succeeded" THEN TRUE ELSE @]
     ELSE UNCHANGED trainingModels
  /\ last' = Outcome("checkTrainingProgress", p, u, res,
                     IF res = "Training not started" THEN {} ELSE {"training"})
  /\ UNCHANGED <<inflight, projects, nextProjectId, photos, headshots, nextHeadshotId, coaching, jobs, full>>

(* projectRouter.checkTrainingStatus *)
routerCheckTrainingStatus(p, u, training) ==
  LET res == IF ~findFirst(p, u) THEN "Training not started"
             ELSE IF projects[p].trainingId = 0 THEN "Training not started"
             ELSE IF ~training.ok THEN "Failed to check training status"
             ELSE "ok"
      status == getTrainingStatus(training)
  IN
  /\ IF res = "ok" /\ status.status = "succeeded" /\ status.modelVersion # NULL
     THEN projects' = [projects EXCEPT
                         ![p].status = "completed",
                         ![p].modelVersion = status.modelVersion]
     ELSE UNCHANGED projects
  /\ last' = Outcome("router.checkTrainingStatus", p, u, res,
                     IF res = "Training not started" THEN {} ELSE {"training"})
  /\ UNCHANGED <<inflight, nextProjectId, photos, trainingModels, headshots, nextHeadshotId, coaching,
               jobs, full>>

----------------------------------------------------------------------------
(* Generation *)

Min(a, b) == IF a < b THEN a ELSE b
Range(f) == {f[i] : i \in DOMAIN f}

(* the Headshot rows one batch creates.  order lists the images whose
   storage upload succeeds, in the order their prisma.headshot.create
   completes (the per-image steps run under Promise.all); base + i is the
   position of image i among the images the call has been returned so far *)
NewHeadshots(p, style, isPreview, base, order) ==
  [j \in 1..Len(order) |->
     [id |-> nextHeadshotId + j - 1, projectId |-> p, style |-> style,
      isPreview |-> isPreview, isTopPick |-> FALSE, aiQualityScore |-> 0,
      img |-> base + order[j]]]

(* Promise.all resolves to the created rows in the order of the images *)
PromiseAllIds(order) ==
  [i \in 1..Len(order) |->
     nextHeadshotId + (CHOOSE j \in 1..Len(order) : order[j] = i) - 1]

(* a generatePreview that waits for every upload to settle and returns
   the rows of those that succeeded *)
generatePreviewResultAllSettled(p, u, genOk, order) ==
  IF ~findFirst(p, u) \/ TrainingIdxOf(p) = 0
    THEN "Project not ready for generation"
  ELSE IF trainingModels[TrainingIdxOf(p)].status # "completed"
    THEN "Model training not completed"
  ELSE IF ~genOk THEN "Failed to generate preview"
  ELSE "ok"

(* ProjectService.generatePreview.  genOk: does replicate.generatePreview
   return its 3 images *)
generatePreviewResult(p, u, genOk, order) ==
  IF ~findFirst(p, u) \/ TrainingIdxOf(p) = 0
    THEN "Project not ready for generation"
  ELSE IF trainingModels[TrainingIdxOf(p)].status # "completed"
    THEN "Model training not completed"
  ELSE IF ~genOk THEN "Failed to generate preview"
  ELSE IF Len(order) < PreviewOutputs THEN "Upload from URL failed"
  ELSE "ok"

generatePreview(p, u, style, genOk, order) ==
  LET res == generatePreviewResult(p, u, genOk, order)
      uploaded == res \in {"ok", "Upload from URL failed"}
  IN
  /\ IF uploaded
     THEN /\ headshots' = headshots \o NewHeadshots(p, style, TRUE, 0, order)
          /\ nextHeadshotId' = nextHeadshotId + Len(order)
     ELSE UNCHANGED <<headshots, nextHeadshotId>>
  /\ IF res = "ok"
     THEN projects' = [projects EXCEPT ![p].status = "preview_ready"]
     ELSE UNCHANGED projects
  /\ last' = Outcome("generatePreview", p, u, res,
                     IF uploaded THEN {"generation", "storage"}
                     ELSE IF res = "Failed to generate preview"
                          THEN {"generation"} ELSE {})
  /\ UNCHANGED <<inflight, nextProjectId, photos, trainingModels, coaching, jobs, full>>

(* projectRouter.generatePreview: the check is on the Project's
   modelVersion; the create sets no isPreview, so the row gets the column's
   default, passed as isPreview *)
routerGeneratePreviewResult(p, u, genOk, order) ==
  IF ~findFirst(p, u) THEN "Model not ready"
  ELSE IF projects[p].modelVersion = NULL THEN "Model not ready"
  ELSE IF ~genOk THEN "Failed to generate preview"
  ELSE IF Len(order) < PreviewOutputs THEN "Upload from URL failed"
  ELSE "ok"

routerGeneratePreview(p, u, style, genOk, order, isPreview) ==
  LET res == routerGeneratePreviewResult(p, u, genOk, order)
      uploaded == res \in {"ok", "Upload from URL failed"}
  IN
  /\ IF uploaded
     THEN /\ headshots' = headshots \o NewHeadshots(p, style, isPreview, 0, order)
          /\ nextHeadshotId' = nextHeadshotId + Len(order)
     ELSE UNCHANGED <<headshots, nextHeadshotId>>
  /\ last' = Outcome("router.generatePreview", p, u, res,
                     IF uploaded THEN {"generation", "storage"}
                     ELSE IF res = "Failed to generate preview"
                          THEN {"generation"} ELSE {})
  /\ UNCHANGED <<inflight, projects, nextProjectId, photos, trainingModels, coaching,
                 jobs, full>>

(* ProjectService.generateFullSet, lines 375-394: the checks and the first
   status write.  The call then runs on its own copy of the project. *)
generateFullSetResult(p, u) ==
  IF ~findFirst(p, u) \/ TrainingIdxOf(p) = 0 THEN "Project not ready"
  ELSE IF trainingModels[TrainingIdxOf(p)].status # "completed"
    THEN "Model not ready"
  ELSE "pending"

generateFullSetBegin(p, u, styles, numPerStyle) ==
  LET res == generateFullSetResult(p, u)
  IN
  /\ full.pc = "idle"
  /\ IF res = "pending"
     THEN /\ projects' = [projects EXCEPT ![p].status = "generating_full"]
          /\ full' = [pc |-> "running", projectId |-> p, userId |-> u,
                      status |-> projects[p].status,
                      styles |-> styles, numPerStyle |-> numPerStyle,
                      k |-> 1, allHeadshots |-> <<>>,
                      pending |-> {}, saved |-> <<>>]
     ELSE UNCHANGED <<projects, full>>
  /\ last' = Outcome("generateFullSet", p, u, res, {})
  /\ UNCHANGED <<inflight, nextProjectId, photos, trainingModels, headshots,
                 nextHeadshotId, coaching, jobs>>

(* one turn of the loop over styles, lines 399-439: the generation call for
   style k, then the per-image uploads and creates *)
generateFullSetStyle(genOk, order) ==
  LET p == full.projectId
      n == full.numPerStyle
      res == IF ~genOk THEN "Failed to generate full set"
             ELSE IF Len(order) < n THEN "Upload from URL failed"
             ELSE IF p \notin DOMAIN projects
                  THEN "Foreign key constraint failed"
             ELSE "pending"
      created == genOk /\ p \in DOMAIN projects
  IN
  /\ full.pc = "running"
  /\ full.k <= Len(full.styles)
  /\ Range(order) \subseteq 1..n
  /\ IF created
     THEN /\ headshots' = headshots \o
                NewHeadshots(p, full.styles[full.k], FALSE,
                             Len(full.allHeadshots), order)
          /\ nextHeadshotId' = nextHeadshotId + Len(order)
     ELSE UNCHANGED <<headshots, nextHeadshotId>>
  /\ IF res = "pending"
     THEN full' = [full EXCEPT
                     !.k = @ + 1,
                     !.allHeadshots = @ \o PromiseAllIds(order)]
     ELSE full' = NoCall
  /\ last' = Outcome("generateFullSet", p, full.userId, res,
                     IF genOk THEN {"generation", "storage"}
                     ELSE {"generation"})
  /\ UNCHANGED <<inflight, projects, nextProjectId, photos, trainingModels, coaching,
                 jobs>>

(* The loop turn of generateFullSet await by await.  pending holds the
   images of style k whose upload-and-create has not settled, saved the
   <<image, row id>> of those it has created, in creation order. *)

(* a join that resumes the loop as soon as one image is saved *)
PromiseAny(pending, saved) == saved # <<>>

(* await Promise.all(images.map(...)) resumes when every promise has
   fulfilled *)
PromiseAll(pending, saved) == pending = {}

(* lines 400-411: await this.replicate.generateFullSet for style k *)
generateFullSetGenerate(genOk) ==
  /\ full.pc = "running"
  /\ full.k <= Len(full.styles)
  /\ IF genOk
     THEN /\ full' = [full EXCEPT !.pc = "saving",
                                  !.pending = 1..full.numPerStyle,
                                  !.saved = <<>>]
          /\ UNCHANGED last
     ELSE /\ full' = NoCall
          /\ last' = Outcome("generateFullSet", full.projectId, full.userId,
                             "Failed to generate full set", {"generation"})
  /\ UNCHANGED <<inflight, projects, nextProjectId, photos, trainingModels,
                 headshots, nextHeadshotId, coaching, jobs>>

(* lines 415-436: the upload, thumbnail and create of one image of style k.
   A rejected promise rejects the Promise.all, and the call throws, while
   the promises of the other images run on *)
generateFullSetSave(i, upl) ==
  LET p == full.projectId
      row == [id |-> nextHeadshotId, projectId |-> p,
              style |-> full.styles[full.k], isPreview |-> FALSE,
              isTopPick |-> FALSE, aiQualityScore |-> 0,
              img |-> Len(full.allHeadshots) + i]
      created == upl /\ p \in DOMAIN projects
  IN
  /\ full.pc \in {"saving", "rejected"}
  /\ i \in full.pending
  /\ IF created
     THEN /\ headshots' = Append(headshots, row)
          /\ nextHeadshotId' = nextHeadshotId + 1
          /\ full' = [full EXCEPT !.pending = @ \ {i},
                                  !.saved = Append(@, <<i, nextHeadshotId>>)]
          /\ UNCHANGED last
     ELSE /\ UNCHANGED <<headshots, nextHeadshotId>>
          /\ full' = [full EXCEPT !.pending = @ \ {i}, !.pc = "rejected"]
          /\ IF full.pc = "saving"
             THEN last' = Outcome("generateFullSet", p, full.userId,
                                  IF upl THEN "Foreign key constraint failed"
                                  ELSE "Upload from URL failed",
                                  {"generation", "storage"})
             ELSE UNCHANGED last
  /\ UNCHANGED <<inflight, projects, nextProjectId, photos, trainingModels,
                 coaching, jobs>>

(* the row ids of saved in the order of their images *)
ImageRank(saved, j) ==
  Cardinality({y \in DOMAIN saved : saved[y][1] < saved[j][1]}) + 1
InImageOrder(saved) ==
  [i \in 1..Len(saved) |->
     saved[CHOOSE j \in DOMAIN saved : ImageRank(saved, j) = i][2]]

(* lines 414 and 438: Promise.all fulfils with the rows in image order and
   allHeadshots.push(...headshots) ends the turn *)
generateFullSetJoin ==
  /\ full.pc = "saving"
  /\ PromiseAll(full.pending, full.saved)
  /\ full' = [full EXCEPT !.pc = "running", !.k = @ + 1,
                          !.allHeadshots = @ \o InImageOrder(full.saved),
                          !.pending = {}, !.saved = <<>>]
  /\ UNCHANGED <<inflight, projects, nextProjectId, photos, trainingModels,
                 headshots, nextHeadshotId, coaching, jobs, last>>

(* the promises left over by a rejected Promise.all have all settled *)
generateFullSetSettle ==
  /\ full.pc = "rejected"
  /\ full.pending = {}
  /\ full' = NoCall
  /\ UNCHANGED <<inflight, projects, nextProjectId, photos, trainingModels,
                 headshots, nextHeadshotId, coaching, jobs, last>>

(* allHeadshots.slice(1, 21) *)
topPicksFromSecond(allHeadshots) ==
  SubSeq(allHeadshots, 2, Min(TopPickLimit + 1, Len(allHeadshots)))

(* const topPicks = allHeadshots.slice(0, 20) *)
topPicks(allHeadshots) ==
  SubSeq(allHeadshots, 1, Min(TopPickLimit, Len(allHeadshots)))

(* a loop that ends after its first turn *)
loopDoneAfterFirst == full.k > 1

(* for (const style of styles): the loop has taken its last turn *)
loopDone == full.k > Len(full.styles)

(* lines 441-462: mark the top picks, then complete the project *)
generateFullSetFinish ==
  LET p == full.projectId
      picks == Range(topPicks(full.allHeadshots))
      rowsExist == picks \subseteq {headshots[i].id : i \in DOMAIN headshots}
      res == IF ~rowsExist \/ p \notin DOMAIN projects
             THEN "Record to update not found" ELSE "ok"
  IN
  /\ full.pc = "running"
  /\ loopDone
  /\ IF rowsExist
     THEN headshots' =
            [i \in DOMAIN headshots |->
               IF headshots[i].id \in picks
               THEN [headshots[i] EXCEPT !.isTopPick = TRUE,
                                         !.aiQualityScore = 85]
               ELSE headshots[i]]
     ELSE UNCHANGED headshots
  /\ IF res = "ok"
     THEN projects' = [projects EXCEPT
                         ![p].status = "completed",
                         ![p].totalGenerated = Len(full.allHeadshots),
                         ![p].completedAt = TRUE]
     ELSE UNCHANGED projects
  /\ full' = NoCall
  /\ last' = Outcome("generateFullSet", p, full.userId, res, {})
  /\ UNCHANGED <<inflight, nextProjectId, photos, trainingModels, nextHeadshotId,
                 coaching, jobs>>

(* headshotRouter.generateHeadshots *)
generateHeadshots(p, u) ==
  LET res == IF ~findFirst(p, u) THEN "Project not found" ELSE "ok"
  IN
  /\ IF res = "ok"
     THEN projects' = [projects EXCEPT ![p].status = "generating"]
     ELSE UNCHANGED projects
  /\ last' = Outcome("router.generateHeadshots", p, u, res, {})
  /\ UNCHANGED <<inflight, nextProjectId, photos, trainingModels, headshots,
                 nextHeadshotId, coaching, jobs, full>>

----------------------------------------------------------------------------
(* Deletion *)

(* what cloudinary.uploader.destroy does for one artifact *)
DestroyOutcomes == {"ok", "not found", "throws"}

(* deleteImage without its catch block *)
deleteImageRethrows(destroy) ==
  [threw |-> destroy = "throws", value |-> destroy = "ok"]

(* ImageStorageService.deleteImage: the catch block turns a throw into
   false *)
deleteImage(destroy) ==
  IF destroy = "throws" THEN [threw |-> FALSE, value |-> FALSE]
  ELSE [threw |-> FALSE, value |-> destroy = "ok"]

(* "Delete from database (cascade will handle relations)" *)
CascadeSeq(rows, p) ==
  LET Keep(r) == r.projectId # p IN SelectSeq(rows, Keep)

(* ProjectService.deleteProject.  destroys: the outcomes of the destroy
   calls made for the project's artifacts *)
allImages(p) == uploadedPhotosLength(p) + Cardinality(HeadshotIdxOf(p))

deleteProjectResult(p, u, destroys) ==
  IF ~findFirst(p, u) THEN "Project not found"
  ELSE IF allImages(p) > 0 /\ \E d \in destroys : deleteImage(d).threw
    THEN "Failed to delete image"
  ELSE "ok"

deleteProject(p, u, destroys) ==
  LET res == deleteProjectResult(p, u, destroys)
  IN
  /\ IF res = "ok"
     THEN /\ projects' = [q \in DOMAIN projects \ {p} |-> projects[q]]
          /\ photos' = CascadePhotos(p)
          /\ trainingModels' = CascadeSeq(trainingModels, p)
          /\ headshots' = CascadeSeq(headshots, p)
          /\ coaching' = CascadeSeq(coaching, p)
     ELSE UNCHANGED <<projects, photos, trainingModels, headshots, coaching>>
  /\ last' = Outcome("deleteProject", p, u, res,
                     IF findFirst(p, u) /\ allImages(p) > 0
                     THEN {"storage"} \cup
                          {"destroy throws" : d \in destroys \cap {"throws"}}
                     ELSE {})
  /\ UNCHANGED <<inflight, nextProjectId, nextHeadshotId, jobs, full>>

(* headshotRouter.deleteProject: prisma.project.delete({ where: { id,
   userId } }) throws when no row matches *)
routerDeleteProject(p, u) ==
  LET res == IF ~findFirst(p, u) THEN "Record to delete does not exist"
             ELSE "ok"
  IN
  /\ IF res = "ok"
     THEN /\ projects' = [q \in DOMAIN projects \ {p} |-> projects[q]]
          /\ photos' = CascadePhotos(p)
          /\ trainingModels' = CascadeSeq(trainingModels, p)
          /\ headshots' = CascadeSeq(headshots, p)
          /\ coaching' = CascadeSeq(coaching, p)
     ELSE UNCHANGED <<projects, photos, trainingModels, headshots, coaching>>
  /\ last' = Outcome("router.deleteProject", p, u, res, {})
  /\ UNCHANGED <<inflight, nextProjectId, nextHeadshotId, jobs, full>>

(* appRouter.coaching.resolve: the row is addressed by its id alone *)
coachingResolve(c, u) ==
  LET res == IF c \in DOMAIN coaching THEN "ok"
             ELSE "Record to update not found"
  IN
  /\ IF res = "ok"
     THEN coaching' = [coaching EXCEPT ![c].isResolved = TRUE]
     ELSE UNCHANGED coaching
  /\ last' = Outcome("coaching.resolve", c, u, res, {})
  /\ UNCHANGED <<inflight, projects, nextProjectId, photos, trainingModels, headshots,
                 nextHeadshotId, jobs, full>>

----------------------------------------------------------------------------
(* Calls in progress.  A handler is a chain of awaits, and other calls of
   the same process run between them; inflight holds one frame per call
   that is suspended, pc names the statement it resumes at, photoCount is
   the photoCount of the project row its findFirst returned, replicateId
   and row are its locals training.trainingId and the photo data. *)

NoRow == [projectId |-> 0, qualityScore |-> 0, isApproved |-> FALSE]

Frame(c, op, p, u, pc) ==
  [call |-> c, op |-> op, projectId |-> p, userId |-> u, pc |-> pc,
   photoCount |-> projects[p].photoCount, replicateId |-> 0, row |-> NoRow]

FreeCalls == (1..MaxCalls) \ {f.call : f \in inflight}
FramesOf(op, p) == {f \in inflight : f.op = op /\ f.projectId = p}

(* a create that refuses a second TrainingModel row of one project *)
trainingModelCreateUnique(row) ==
  IF TrainingIdxOf(row.projectId) # 0 THEN trainingModels
  ELSE Append(trainingModels, row)

(* prisma.trainingModel.create *)
trainingModelCreate(row) == Append(trainingModels, row)

(* ProjectService.startTraining up to its first provider call: the lookup
   and the photo-count check *)
startTrainingBegin(c, p, u) ==
  LET res == startTrainingResult(p, u, TRUE)
  IN
  /\ c \in FreeCalls
  /\ IF res = "ok"
     THEN /\ inflight' = inflight \cup {Frame(c, "startTraining", p, u, "trainModel")}
          /\ UNCHANGED last
     ELSE /\ UNCHANGED inflight
          /\ last' = Outcome("startTraining", p, u, res, {})
  /\ UNCHANGED <<projects, nextProjectId, photos, trainingModels, headshots,
                 nextHeadshotId, coaching, jobs, full>>

(* await this.replicate.trainModel(...) *)
startTrainingTrain(f, trainOk) ==
  /\ f \in inflight /\ f.op = "startTraining" /\ f.pc = "trainModel"
  /\ IF trainOk
     THEN /\ jobs' = jobs + 1
          /\ inflight' = (inflight \ {f}) \cup
                           {[f EXCEPT !.pc = "create", !.replicateId = jobs + 1]}
          /\ UNCHANGED last
     ELSE /\ inflight' = inflight \ {f}
          /\ last' = Outcome("startTraining", f.projectId, f.userId,
                             "Failed to start model training", {"training"})
          /\ UNCHANGED jobs
  /\ UNCHANGED <<projects, nextProjectId, photos, trainingModels, headshots,
                 nextHeadshotId, coaching, full>>

(* await prisma.trainingModel.create(...) *)
startTrainingCreate(f) ==
  LET trainingModel ==
        [projectId |-> f.projectId, replicateId |-> f.replicateId,
         status |-> "training", progress |-> 0, modelUrl |-> NULL,
         completedAt |-> FALSE]
  IN
  /\ f \in inflight /\ f.op = "startTraining" /\ f.pc = "create"
  /\ trainingModels' = trainingModelCreate(trainingModel)
  /\ inflight' = (inflight \ {f}) \cup {[f EXCEPT !.pc = "update"]}
  /\ UNCHANGED <<projects, nextProjectId, photos, headshots, nextHeadshotId,
                 coaching, jobs, full, last>>

(* await prisma.project.update(...) and the return *)
startTrainingUpdate(f) ==
  /\ f \in inflight /\ f.op = "startTraining" /\ f.pc = "update"
  /\ projects' = [projects EXCEPT ![f.projectId].status = "generating_preview"]
  /\ inflight' = inflight \ {f}
  /\ last' = Outcome("startTraining", f.projectId, f.userId, "ok", {"training"})
  /\ UNCHANGED <<nextProjectId, photos, trainingModels, headshots,
                 nextHeadshotId, coaching, jobs, full>>

(* an increment computed from the project row the call read *)
incrementFromRead(f) == f.photoCount + 1

(* photoCount: { increment: 1 }: the database adds one to the stored value *)
increment(f) == projects[f.projectId].photoCount + 1

(* ProjectService.uploadPhoto up to its first write: the lookup, the upload
   to storage and the analysis, none of which touches a table *)
uploadPhotoBegin(c, p, u, upl, resp) ==
  LET res == uploadPhotoResult(p, u, upl)
      analysis == analyzePhoto(resp)
      row == [projectId |-> p, qualityScore |-> analysis.qualityScore,
              isApproved |-> analysis.approved]
  IN
  /\ c \in FreeCalls
  /\ IF res = "ok"
     THEN /\ inflight' = inflight \cup
                           {[Frame(c, "uploadPhoto", p, u, "create")
                               EXCEPT !.row = row]}
          /\ UNCHANGED last
     ELSE /\ UNCHANGED inflight
          /\ last' = Outcome("uploadPhoto", p, u, res,
                             IF res = "Project not found" THEN {} ELSE {"storage"})
  /\ UNCHANGED <<projects, nextProjectId, photos, trainingModels, headshots,
                 nextHeadshotId, coaching, jobs, full>>

(* await prisma.uploadedPhoto.create(...) *)
uploadPhotoCreate(f) ==
  /\ f \in inflight /\ f.op = "uploadPhoto" /\ f.pc = "create"
  /\ photos' = photos (+) SetToBag({f.row})
  /\ inflight' = (inflight \ {f}) \cup {[f EXCEPT !.pc = "update"]}
  /\ UNCHANGED <<projects, nextProjectId, trainingModels, headshots,
                 nextHeadshotId, coaching, jobs, full, last>>

(* await prisma.project.update(...) and the return *)
uploadPhotoUpdate(f) ==
  /\ f \in inflight /\ f.op = "uploadPhoto" /\ f.pc = "update"
  /\ projects' = [projects EXCEPT ![f.projectId].photoCount = increment(f)]
  /\ inflight' = inflight \ {f}
  /\ last' = Outcome("uploadPhoto", f.projectId, f.userId, "ok",
                     {"storage", "vision"})
  /\ UNCHANGED <<nextProjectId, photos, trainingModels, headshots,
                 nextHeadshotId, coaching, jobs, full>>

----------------------------------------------------------------------------
(* Inputs *)

InOrder(n) == [i \in 1..n |-> i]

(* the vision answers for a batch of n photos: the same answer for each *)
UniformBatches(n) == {[i \in 1..n |-> v] : v \in VisionSamples}

(* training objects the provider returns in the workflow specification *)
TrainingSamples ==
  {t \in Trainings :
     \/ t.status = "processing" /\ t.metrics = <<0, 0>> /\ t.version = NULL
     \/ t.status = "succeeded" /\ t.metrics = <<0, 0>> /\ t.version = "v1"
     \/ t.status = "failed" /\ t.metrics = <<0, 0>> /\ t.version = NULL}

(* Bounds on the rows the tables hold, as guards of the calls that add
   rows *)
PhotoRoom == TotalPhotoRows < MaxPhotos
CoachingRoom == Len(coaching) < MaxCoaching
TrainingRoom == jobs < MaxTrainings
HeadshotRoom(n) == nextHeadshotId + n - 1 <= MaxHeadshots

(* The workflow engine: the handlers of ProjectService, called one after
   the other by any user on any project id *)
Next ==
  \/ \E u \in Users : createProject(u)
  \/ \E p \in ProjectIds, u \in Users : getProject(p, u)
  \/ \E p \in ProjectIds, u \in Users : updateProject(p, u)
  \/ \E p \in ProjectIds, u \in Users, upl \in BOOLEAN,
        resp \in {VisionOk(DefaultAnalysis), VisionError} :
       PhotoRoom /\ uploadPhoto(p, u, upl, resp)
  \/ \E p \in ProjectIds, u \in Users :
       \E resps \in UniformBatches(uploadedPhotosLength(p)) :
         /\ CoachingRoom
         /\ analyzeProjectPhotos(p, u, resps)
         /\ Len(coaching') <= MaxCoaching
  \/ \E p \in ProjectIds, u \in Users, trainOk \in BOOLEAN :
       TrainingRoom /\ startTraining(p, u, trainOk)
  \/ \E p \in ProjectIds, u \in Users,
        training \in TrainingSamples \cup {TrainingsGetError} :
       checkTrainingProgress(p, u, training)
  \/ \E p \in ProjectIds, u \in Users, genOk \in BOOLEAN :
       /\ HeadshotRoom(PreviewOutputs)
       /\ generatePreview(p, u, "CORPORATE", genOk, InOrder(PreviewOutputs))
  \/ \E p \in ProjectIds, u \in Users :
       HeadshotRoom(1) /\ generateFullSetBegin(p, u, <<"CORPORATE">>, 1)
  \/ \E genOk \in BOOLEAN :
       generateFullSetStyle(genOk, InOrder(full.numPerStyle))
  \/ generateFullSetFinish
  \/ \E p \in ProjectIds, u \in Users, destroys \in SUBSET DestroyOutcomes :
       destroys # {} /\ deleteProject(p, u, destroys)

Spec == Init /\ [][Next]_vars

(* Training: photo intake with approved and rejected photos, the two
   startTraining handlers and the two polling handlers, with every training
   object the provider can return *)
NextTraining ==
  \/ \E u \in Users : createProject(u)
  \/ \E p \in ProjectIds, u \in Users, upl \in BOOLEAN, resp \in VisionSamples :
       PhotoRoom /\ uploadPhoto(p, u, upl, resp)
  \/ \E p \in ProjectIds, u \in Users, trainOk \in BOOLEAN :
       TrainingRoom /\ startTraining(p, u, trainOk)
  \/ \E p \in ProjectIds, u \in Users, trainOk \in BOOLEAN :
       TrainingRoom /\ routerStartTraining(p, u, trainOk)
  \/ \E p \in ProjectIds, u \in Users,
        training \in Trainings \cup {TrainingsGetError} :
       checkTrainingProgress(p, u, training)
  \/ \E p \in ProjectIds, u \in Users,
        training \in Trainings \cup {TrainingsGetError} :
       routerCheckTrainingStatus(p, u, training)

SpecTraining == Init /\ [][NextTraining]_vars

(* The RPC surface around photo intake: the appRouter procedures that
   forward to ProjectService, coaching.resolve, and the procedures of
   projectRouter and headshotRouter that write Project rows themselves *)
NextRpc ==
  \/ \E u \in Users : createProject(u)
  \/ \E p \in ProjectIds, u \in Users : updateProject(p, u)
  \/ \E p \in ProjectIds, u \in Users, upl \in BOOLEAN :
       PhotoRoom /\ uploadPhoto(p, u, upl, VisionOk(DefaultAnalysis))
  \/ \E p \in ProjectIds, u \in Users :
       \E resps \in UniformBatches(uploadedPhotosLength(p)) :
         /\ CoachingRoom
         /\ analyzeProjectPhotos(p, u, resps)
         /\ Len(coaching') <= MaxCoaching
  \/ \E c \in 1..MaxCoaching, u \in Users : coachingResolve(c, u)
  \/ \E p \in ProjectIds, u \in Users : routerAnalyzePhotos(p, u)
  \/ \E p \in ProjectIds, u \in Users : generateHeadshots(p, u)
  \/ \E p \in ProjectIds, u \in Users, destroys \in SUBSET DestroyOutcomes :
       destroys # {} /\ deleteProject(p, u, destroys)
  \/ \E p \in ProjectIds, u \in Users : routerDeleteProject(p, u)

SpecRpc == Init /\ [][NextRpc]_vars

(* orders in which the creates of one style's images complete *)
Reverse(n) == [i \in 1..n |-> n + 1 - i]
OrderSamples(n) == {InOrder(n), Reverse(n)}

AllStyles == <<"CORPORATE", "CREATIVE", "EXECUTIVE">>

(* the full-set requests: 20, 30 and 21 headshots *)
FullSetSamples ==
  {<<SubSeq(AllStyles, 1, 2), DefaultPerStyle>>,
   <<AllStyles, DefaultPerStyle>>,
   <<AllStyles, OddPerStyle>>}

(* The full set: one project is taken through photo intake and training,
   then one generateFullSet call runs, with the creates of each style
   completing in image order or in the opposite order *)
NextFullSet ==
  \/ \E u \in Users : createProject(u)
  \/ \E p \in ProjectIds, u \in Users :
       PhotoRoom /\ uploadPhoto(p, u, TRUE, VisionOk(DefaultAnalysis))
  \/ \E p \in ProjectIds, u \in Users :
       TrainingRoom /\ startTraining(p, u, TRUE)
  \/ \E p \in ProjectIds, u \in Users, training \in TrainingSamples :
       checkTrainingProgress(p, u, training)
  \/ \E p \in ProjectIds, u \in Users, req \in FullSetSamples :
       /\ headshots = <<>>
       /\ generateFullSetBegin(p, u, req[1], req[2])
  \/ \E genOk \in BOOLEAN, order \in OrderSamples(full.numPerStyle) :
       generateFullSetStyle(genOk, order)
  \/ generateFullSetFinish

SpecFullSet == Init /\ [][NextFullSet]_vars

(* The workflow engine together with the two router procedures that write
   nothing but Project.status *)
NextStatus ==
  \/ \E u \in Users : createProject(u)
  \/ \E p \in ProjectIds, u \in Users :
       PhotoRoom /\ uploadPhoto(p, u, TRUE, VisionOk(DefaultAnalysis))
  \/ \E p \in ProjectIds, u \in Users :
       /\ CoachingRoom
       /\ analyzeProjectPhotos(p, u, [i \in 1..uploadedPhotosLength(p) |->
                                       VisionOk(DefaultAnalysis)])
       /\ Len(coaching') <= MaxCoaching
  \/ \E p \in ProjectIds, u \in Users, trainOk \in BOOLEAN :
       TrainingRoom /\ startTraining(p, u, trainOk)
  \/ \E p \in ProjectIds, u \in Users, training \in TrainingSamples :
       checkTrainingProgress(p, u, training)
  \/ \E p \in ProjectIds, u \in Users, genOk \in BOOLEAN :
       /\ HeadshotRoom(PreviewOutputs)
       /\ generatePreview(p, u, "CORPORATE", genOk, InOrder(PreviewOutputs))
  \/ \E p \in ProjectIds, u \in Users :
       HeadshotRoom(1) /\ generateFullSetBegin(p, u, <<"CORPORATE">>, 1)
  \/ \E genOk \in BOOLEAN :
       generateFullSetStyle(genOk, InOrder(full.numPerStyle))
  \/ generateFullSetFinish
  \/ \E p \in ProjectIds, u \in Users : routerAnalyzePhotos(p, u)
  \/ \E p \in ProjectIds, u \in Users : generateHeadshots(p, u)

SpecStatus == Init /\ [][NextStatus]_vars

(* Generation: both ways to a trained model (the TrainingModel row of
   ProjectService, the modelVersion of projectRouter) and the generation
   handlers of both *)
NextGenerate ==
  \/ \E u \in Users : createProject(u)
  \/ \E p \in ProjectIds, u \in Users :
       PhotoRoom /\ uploadPhoto(p, u, TRUE, VisionOk(DefaultAnalysis))
  \/ \E p \in ProjectIds, u \in Users :
       TrainingRoom /\ startTraining(p, u, TRUE)
  \/ \E p \in ProjectIds, u \in Users :
       TrainingRoom /\ routerStartTraining(p, u, TRUE)
  \/ \E p \in ProjectIds, u \in Users, training \in TrainingSamples :
       checkTrainingProgress(p, u, training)
  \/ \E p \in ProjectIds, u \in Users, training \in TrainingSamples :
       routerCheckTrainingStatus(p, u, training)
  \/ \E p \in ProjectIds, u \in Users, genOk \in BOOLEAN :
       /\ HeadshotRoom(PreviewOutputs)
       /\ generatePreview(p, u, "CORPORATE", genOk, InOrder(PreviewOutputs))
  \/ \E p \in ProjectIds, u \in Users, genOk \in BOOLEAN, isPreview \in BOOLEAN :
       /\ HeadshotRoom(PreviewOutputs)
       /\ routerGeneratePreview(p, u, "CORPORATE", genOk,
                                InOrder(PreviewOutputs), isPreview)
  \/ \E p \in ProjectIds, u \in Users :
       HeadshotRoom(1) /\ generateFullSetBegin(p, u, <<"CORPORATE">>, 1)
  \/ \E genOk \in BOOLEAN :
       generateFullSetStyle(genOk, InOrder(full.numPerStyle))
  \/ generateFullSetFinish

SpecGenerate == Init /\ [][NextGenerate]_vars

(* the dimensions a batch's flagged photos are poor in *)
PoorSamples == {{"lighting"}, {"focus"}, {"background", "expression", "angle"}}

(* the vision answers for a batch of n photos of which k are flagged *)
MixedBatches(n) ==
  {[i \in 1..n |-> IF i <= k THEN VisionOk(PoorIn(D))
                   ELSE VisionOk(DefaultAnalysis)] :
     k \in 0..n, D \in PoorSamples}

(* Coaching: one project is given up to MaxBatch photos and is analysed,
   with any number of its photos flagged in the analysis *)
NextCoaching ==
  \/ \E u \in Users : projects = <<>> /\ createProject(u)
  \/ \E p \in ProjectIds, u \in Users :
       /\ TotalPhotoRows < MaxBatch
       /\ uploadPhoto(p, u, TRUE, VisionOk(DefaultAnalysis))
  \/ \E p \in ProjectIds, u \in Users :
       \E resps \in MixedBatches(uploadedPhotosLength(p)) :
         coaching = <<>> /\ analyzeProjectPhotos(p, u, resps)

SpecCoaching == Init /\ [][NextCoaching]_vars

(* every order in which n creates can complete *)
Orders(n) == {f \in [1..n -> 1..n] : Range(f) = 1..n}

(* what the provider reports of a training that runs and then succeeds *)
CanonicalPolls ==
  {t \in Trainings :
     \/ t.status \in {"starting", "processing"} /\ t.version = NULL
     \/ t.status = "succeeded" /\ t.metrics = <<0, 0>> /\ t.version # NULL}

(* the latest call was op, on a project its caller owns *)
After(op, p, u) ==
  last.op = op /\ last.projectId = p /\ last.userId = u /\ Owns(u, p)

(* The canonical run: the owner creates a project, uploads 10 approved
   photos, analyses them, starts the training, polls until the provider
   reports success, generates the preview and then the full set of one
   style; every provider call succeeds, and the creates of a batch complete
   in any order *)
NextCanonical ==
  \/ \E u \in Users : projects = <<>> /\ nextProjectId = 1 /\ createProject(u)
  \/ \E p \in ProjectIds, u \in Users,
        resp \in {VisionOk(DefaultAnalysis), VisionError} :
       /\ After("createProject", p, u) \/ After("uploadPhoto", p, u)
       /\ uploadedPhotosLength(p) < MinPhotos
       /\ uploadPhoto(p, u, TRUE, resp)
  \/ \E p \in ProjectIds, u \in Users :
       \E resps \in UniformBatches(uploadedPhotosLength(p)) :
         /\ After("uploadPhoto", p, u)
         /\ uploadedPhotosLength(p) = MinPhotos
         /\ analyzeProjectPhotos(p, u, resps)
  \/ \E p \in ProjectIds, u \in Users :
       After("analyzeProjectPhotos", p, u) /\ startTraining(p, u, TRUE)
  \/ \E p \in ProjectIds, u \in Users, training \in CanonicalPolls :
       /\ After("startTraining", p, u) \/ After("checkTrainingProgress", p, u)
       /\ ~ModelCompleted(p)
       /\ checkTrainingProgress(p, u, training)
  \/ \E p \in ProjectIds, u \in Users, order \in Orders(PreviewOutputs) :
       /\ After("checkTrainingProgress", p, u)
       /\ ModelCompleted(p)
       /\ generatePreview(p, u, "CORPORATE", TRUE, order)
  \/ \E p \in ProjectIds, u \in Users :
       /\ After("generatePreview", p, u)
       /\ generateFullSetBegin(p, u, <<"CORPORATE">>, DefaultPerStyle)
  \/ \E order \in OrderSamples(full.numPerStyle) :
       generateFullSetStyle(TRUE, order)
  \/ generateFullSetFinish

SpecCanonical == Init /\ [][NextCanonical]_vars

(* Re-training: one project is given its photos, then startTraining is
   called again and again, with polls in between *)
NextRetrain ==
  \/ \E u \in Users : createProject(u)
  \/ \E p \in ProjectIds, u \in Users :
       PhotoRoom /\ uploadPhoto(p, u, TRUE, VisionOk(DefaultAnalysis))
  \/ \E p \in ProjectIds, u \in Users, trainOk \in BOOLEAN :
       jobs < MaxRetrain /\ startTraining(p, u, trainOk)
  \/ \E p \in ProjectIds, u \in Users, training \in TrainingSamples :
       checkTrainingProgress(p, u, training)

SpecRetrain == Init /\ [][NextRetrain]_vars

(* One project, its uploads and training starts as interleaved calls *)
NextConcurrent ==
  \/ \E u \in Users : projects = <<>> /\ createProject(u)
  \/ \E c \in 1..MaxCalls, p \in ProjectIds, u \in Users, upl \in BOOLEAN :
       /\ TotalPhotoRows + Cardinality(FramesOf("uploadPhoto", p)) < MaxPhotos
       /\ uploadPhotoBegin(c, p, u, upl, VisionOk(DefaultAnalysis))
  \/ \E f \in inflight : uploadPhotoCreate(f)
  \/ \E f \in inflight : uploadPhotoUpdate(f)
  \/ \E c \in 1..MaxCalls, p \in ProjectIds, u \in Users :
       /\ jobs + Cardinality(FramesOf("startTraining", p)) < MaxRetrain
       /\ startTrainingBegin(c, p, u)
  \/ \E f \in inflight, trainOk \in BOOLEAN : startTrainingTrain(f, trainOk)
  \/ \E f \in inflight : startTrainingCreate(f)
  \/ \E f \in inflight : startTrainingUpdate(f)

SpecConcurrent == Init /\ [][NextConcurrent]_vars

(* the full-set request of the loop specification: two styles of
   PairPerStyle images *)
LoopSamples == {<<SubSeq(AllStyles, 1, 2), PairPerStyle>>}

(* The loop over styles await by await: one project is taken through
   photo intake and training, then one generateFullSet call runs with no
   other call in between, the uploads of its images settling in any order,
   each succeeding or not *)
NextLoop ==
  \/ \E u \in Users : projects = <<>> /\ createProject(u)
  \/ \E p \in ProjectIds, u \in Users :
       /\ PhotoRoom /\ full.pc = "idle"
       /\ uploadPhoto(p, u, TRUE, VisionOk(DefaultAnalysis))
  \/ \E p \in ProjectIds, u \in Users :
       /\ TrainingRoom /\ full.pc = "idle"
       /\ startTraining(p, u, TRUE)
  \/ \E p \in ProjectIds, u \in Users, training \in TrainingSamples :
       full.pc = "idle" /\ checkTrainingProgress(p, u, training)
  \/ \E p \in ProjectIds, u \in Users, req \in LoopSamples :
       /\ headshots = <<>>
       /\ generateFullSetBegin(p, u, req[1], req[2])
  \/ \E genOk \in BOOLEAN : generateFullSetGenerate(genOk)
  \/ \E i \in 1..PairPerStyle, upl \in BOOLEAN : generateFullSetSave(i, upl)
  \/ generateFullSetJoin
  \/ generateFullSetSettle
  \/ generateFullSetFinish

SpecLoop == Init /\ [][NextLoop]_vars

(* the images of a batch of n whose upload succeeds, in every order in
   which their creates can complete *)
PartialOrders(n) ==
  {f \in UNION {[1..k -> 1..n] : k \in 0..n} :
     \A i, j \in DOMAIN f : f[i] = f[j] => i = j}

(* Preview: one project is taken through photo intake and training, then
   previews are generated, any of the three uploads of a batch failing *)
NextPreview ==
  \/ \E u \in Users : projects = <<>> /\ createProject(u)
  \/ \E p \in ProjectIds, u \in Users :
       PhotoRoom /\ uploadPhoto(p, u, TRUE, VisionOk(DefaultAnalysis))
  \/ \E p \in ProjectIds, u \in Users :
       TrainingRoom /\ startTraining(p, u, TRUE)
  \/ \E p \in ProjectIds, u \in Users, training \in TrainingSamples :
       checkTrainingProgress(p, u, training)
  \/ \E p \in ProjectIds, u \in Users, genOk \in BOOLEAN,
        order \in PartialOrders(PreviewOutputs) :
       /\ HeadshotRoom(PreviewOutputs)
       /\ generatePreview(p, u, "CORPORATE", genOk, order)

SpecPreview == Init /\ [][NextPreview]_vars

(* Vision provider down: every call of the vision provider throws, during
   photo intake and during the batch analysis *)
NextVisionDown ==
  \/ \E u \in Users : projects = <<>> /\ createProject(u)
  \/ \E p \in ProjectIds, u \in Users, upl \in BOOLEAN :
       PhotoRoom /\ uploadPhoto(p, u, upl, VisionError)
  \/ \E p \in ProjectIds, u \in Users :
       /\ CoachingRoom
       /\ analyzeProjectPhotos(p, u, [i \in 1..uploadedPhotosLength(p) |->
                                       VisionError])
       /\ Len(coaching') <= MaxCoaching

SpecVisionDown == Init /\ [][NextVisionDown]_vars

(* the requests of the repeated full sets: 10 and 20 headshots *)
RepeatSamples ==
  {<<SubSeq(AllStyles, 1, 1), DefaultPerStyle>>,
   <<SubSeq(AllStyles, 1, 2), DefaultPerStyle>>}

(* Repeated full sets: one project is taken through photo intake and
   training, then generateFullSet is called again and again, each call
   after the one before has ended *)
NextRepeat ==
  \/ \E u \in Users : projects = <<>> /\ createProject(u)
  \/ \E p \in ProjectIds, u \in Users :
       PhotoRoom /\ uploadPhoto(p, u, TRUE, VisionOk(DefaultAnalysis))
  \/ \E p \in ProjectIds, u \in Users :
       TrainingRoom /\ startTraining(p, u, TRUE)
  \/ \E p \in ProjectIds, u \in Users, training \in TrainingSamples :
       checkTrainingProgress(p, u, training)
  \/ \E p \in ProjectIds, u \in Users, req \in RepeatSamples :
       /\ nextHeadshotId + Len(req[1]) * req[2] - 1 <= MaxFullRows
       /\ generateFullSetBegin(p, u, req[1], req[2])
  \/ \E genOk \in BOOLEAN :
       generateFullSetStyle(genOk, InOrder(full.numPerStyle))
  \/ generateFullSetFinish

SpecRepeat == Init /\ [][NextRepeat]_vars

----------------------------------------------------------------------------
(* Properties of the workflow engine *)

Tables == <<projects, photos, trainingModels, headshots, coaching, jobs, full>>

(* the handlers of ProjectService that take (projectId, userId) *)
ServiceOps ==
  {"getProject", "updateProject", "uploadPhoto", "analyzeProjectPhotos",
   "startTraining", "checkTrainingProgress", "generatePreview",
   "generateFullSet", "deleteProject"}

(* every result the handler op can return to u for project id p in the
   current state, over all provider behaviours *)
ServiceResults(op, p, u) ==
  CASE op = "getProject" -> {getProjectResult(p, u)}
    [] op = "updateProject" -> {updateProjectResult(p, u)}
    [] op = "uploadPhoto" -> {uploadPhotoResult(p, u, b) : b \in BOOLEAN}
    [] op = "analyzeProjectPhotos" -> {analyzeProjectPhotosResult(p, u)}
    [] op = "startTraining" -> {startTrainingResult(p, u, b) : b \in BOOLEAN}
    [] op = "checkTrainingProgress" ->
         {checkTrainingProgressResult(p, u, t) :
            t \in Trainings \cup {TrainingsGetError}}
    [] op = "generatePreview" ->
         {generatePreviewResult(p, u, b, InOrder(PreviewOutputs)) :
            b \in BOOLEAN}
    [] op = "generateFullSet" -> {generateFullSetResult(p, u)}
    [] op = "deleteProject" ->
         {deleteProjectResult(p, u, D) : D \in SUBSET DestroyOutcomes \ {{}}}

(* an id no Project row has: the next id the table will hand out *)
MissingId == nextProjectId

(* the step is a call of a ProjectService handler (for generateFullSet: the
   call itself, not a later step of a call in flight) *)
ServiceCall == last'.op \in ServiceOps /\ full.pc = "idle"

(* C5: a call of a ProjectService handler on a project that exists but is
   not owned by the caller returns exactly what the same call returns for a
   project id that does not exist, and neither call changes any table. *)
C5_UnauthorizedAsNotFound ==
  [][(ServiceCall /\ ~Owns(last'.userId, last'.projectId))
       => /\ ServiceResults(last'.op, MissingId, last'.userId) = {last'.result}
          /\ UNCHANGED Tables]_vars

C5_Witness ==
  /\ last.op = "startTraining"
  /\ last.projectId \in DOMAIN projects
  /\ projects[last.projectId].userId # last.userId
  /\ uploadedPhotosLength(last.projectId) >= MinPhotos
  /\ last.result = "Project not found"

(* C6: a deleteProject call by the owner returns success and leaves no
   Project, Photo, Headshot, TrainingModel or CoachingFeedback row of that
   project, whatever the storage provider's destroy calls do. *)
C6_DeleteAlwaysCompletes ==
  [][(last'.op = "deleteProject" /\ Owns(last'.userId, last'.projectId))
       => /\ last'.result = "ok"
          /\ last'.projectId \notin DOMAIN projects'
          /\ \A r \in BagToSet(photos') : r.projectId # last'.projectId
          /\ \A i \in DOMAIN headshots' :
               headshots'[i].projectId # last'.projectId
          /\ \A i \in DOMAIN trainingModels' :
               trainingModels'[i].projectId # last'.projectId
          /\ \A i \in DOMAIN coaching' :
               coaching'[i].projectId # last'.projectId]_vars

C6_Witness ==
  /\ last.op = "deleteProject"
  /\ last.result = "ok"
  /\ "destroy throws" \in last.calls
  /\ last.projectId \notin DOMAIN projects
  /\ nextHeadshotId > 1
  /\ jobs > 0

(* C10: in every state, completedAt of a Project is set exactly when its
   status is completed. *)
C10_CompletedAtIffCompleted ==
  \A p \in DOMAIN projects :
    projects[p].completedAt <=> projects[p].status = "completed"

----------------------------------------------------------------------------
(* Properties of training *)

StartOps == {"startTraining", "router.startTraining"}

(* C2: a startTraining call by the owner on a project with 9 or fewer
   photos returns "Need at least 10 photos to train model", calls no
   provider, creates no TrainingModel row and no training job, and leaves
   the Project row as it was. *)
C2_TooFewPhotos ==
  [][(/\ last'.op \in StartOps
      /\ Owns(last'.userId, last'.projectId)
      /\ uploadedPhotosLength(last'.projectId) <= 9)
       => /\ last'.result = "Need at least 10 photos to train model"
          /\ last'.calls = {}
          /\ UNCHANGED <<trainingModels, jobs, projects>>]_vars

C2_Witness ==
  /\ last.op = "startTraining"
  /\ Owns(last.userId, last.projectId)
  /\ uploadedPhotosLength(last.projectId) = 9
  /\ last.result = "Need at least 10 photos to train model"

(* C3: a startTraining call by the owner on a project with 10 or more
   photos, none of them approved, fails: it creates no TrainingModel row
   and does not change Project.status. *)
C3_NoApprovedPhotoFails ==
  [][(/\ last'.op = "startTraining"
      /\ Owns(last'.userId, last'.projectId)
      /\ uploadedPhotosLength(last'.projectId) >= 10
      /\ approvedPhotosLength(last'.projectId) = 0)
       => /\ last'.result # "ok"
          /\ UNCHANGED <<trainingModels, projects>>]_vars

(* C8: a checkTrainingProgress call that finds the TrainingModel in status
   training and leaves it in status training does not lower its progress. *)
C8_ProgressMonotonic ==
  [][(/\ last'.op = "checkTrainingProgress"
      /\ last'.result = "ok")
       => LET i == TrainingIdxOf(last'.projectId)
          IN (/\ trainingModels[i].status = "training"
              /\ trainingModels'[i].status = "training")
               => trainingModels'[i].progress >= trainingModels[i].progress]_vars

PollOps == {"checkTrainingProgress", "router.checkTrainingStatus"}

(* C9: a poll of the training job leaves the status of every Project as it
   was, whatever the provider reports. *)
C9_PollKeepsProjectStatus ==
  [][last'.op \in PollOps
       => \A p \in DOMAIN projects :
            /\ p \in DOMAIN projects'
            /\ projects'[p].status = projects[p].status]_vars

----------------------------------------------------------------------------
(* Properties of the RPC surface *)

(* C1: in every state the status of every Project is one of uploading,
   analyzing, ready, training, generating_preview, preview_ready,
   generating_full, completed, failed. *)
C1_StatusInEnum ==
  \A p \in DOMAIN projects : projects[p].status \in ProjectStatus

(* the mutating procedures of the RPC surface *)
RpcMutations ==
  {"updateProject", "deleteProject", "uploadPhoto", "analyzeProjectPhotos",
   "startTraining", "generatePreview", "generateFullSet",
   "coaching.resolve", "router.analyzePhotos", "router.startTraining",
   "router.generateHeadshots", "router.deleteProject"}

(* the Project the target row of a call belongs to: coaching.resolve
   addresses a CoachingFeedback row, the others a Project *)
TargetProject(l) ==
  IF l.op = "coaching.resolve"
  THEN IF l.projectId \in DOMAIN coaching
       THEN coaching[l.projectId].projectId ELSE MissingId
  ELSE l.projectId

(* C4: a call of a mutating RPC procedure by a user who does not own the
   target row's Project changes no persisted row. *)
C4_OwnershipBeforeWrite ==
  [][(/\ last'.op \in RpcMutations
      /\ full.pc = "idle"
      /\ ~Owns(last'.userId, TargetProject(last')))
       => UNCHANGED Tables]_vars

----------------------------------------------------------------------------
(* Properties of the full set *)

(* the rows of project p that are not previews, as positions of the
   Headshot table, which is kept in creation order *)
FullRowsOf(p) ==
  {i \in 1..Len(headshots) :
     headshots[i].projectId = p /\ ~headshots[i].isPreview}

(* C7: after a successful generateFullSet that created N non-preview
   Headshots, exactly min(N, 20) of them are top picks, and they are the
   first 20 in creation order, in whatever order the creates of one style
   completed. *)
C7_TopPicksFirstCreated ==
  (last.op = "generateFullSet" /\ last.result = "ok")
    => LET rows == FullRowsOf(last.projectId)
       IN \A i \in rows :
            headshots[i].isTopPick
              <=> Cardinality({j \in rows : j <= i}) <= TopPickLimit

----------------------------------------------------------------------------
(* Properties of the TrainingModel row *)

(* C11: in every state the modelUrl of a TrainingModel is set exactly when
   its status is completed. *)
C11_ModelUrlIffCompleted ==
  \A i \in DOMAIN trainingModels :
    (trainingModels[i].modelUrl # NULL)
      <=> (trainingModels[i].status = "completed")

(* C12: in every state a Project has at most one TrainingModel row, however
   often startTraining was called on it. *)
C12_AtMostOneTrainingModel ==
  \A p \in DOMAIN projects :
    Cardinality({i \in DOMAIN trainingModels :
                   trainingModels[i].projectId = p}) <= 1

----------------------------------------------------------------------------
(* Properties of provider failures *)

(* the errors of the training, generation and storage providers *)
ProviderFailures ==
  {"Failed to start model training", "Failed to generate preview",
   "Failed to generate full set", "Upload from URL failed"}

(* C13: when a provider call of startTraining, generatePreview or
   generateFullSet fails, the Project's status after the operation is the
   status it had when the operation started. *)
C13_FailedOperationKeepsStatus ==
  [][(/\ last'.op \in {"startTraining", "generatePreview", "generateFullSet"}
      /\ last'.result \in ProviderFailures
      /\ last'.projectId \in DOMAIN projects')
       => projects'[last'.projectId].status =
            IF last'.op = "generateFullSet" THEN full.status
            ELSE projects[last'.projectId].status]_vars

----------------------------------------------------------------------------
(* Properties of the status field *)

WorkflowOps ==
  {"uploadPhoto", "analyzeProjectPhotos", "startTraining",
   "checkTrainingProgress", "generatePreview", "generateFullSet"}

(* the step changes the status of some Project and nothing else of the
   Project, Photo, TrainingModel, Headshot and CoachingFeedback tables *)
StatusOnlyStep ==
  /\ projects' # projects
  /\ DOMAIN projects' = DOMAIN projects
  /\ \A p \in DOMAIN projects :
       [projects'[p] EXCEPT !.status = projects[p].status] = projects[p]
  /\ UNCHANGED <<photos, trainingModels, headshots, coaching>>

(* C14: two states that differ only in the status of a Project give every
   workflow operation the same results: the same success or the same
   error, for every caller and every provider behaviour. *)
C14_StatusNeverRejects ==
  [][StatusOnlyStep
       => \A op \in WorkflowOps, p \in ProjectIds, u \in Users :
            ServiceResults(op, p, u)' = ServiceResults(op, p, u)]_vars

C14_Witness ==
  /\ last.op = "router.generateHeadshots"
  /\ last.result = "ok"
  /\ projects[last.projectId].status = "generating"
  /\ startTrainingResult(last.projectId, last.userId, TRUE) = "ok"
  /\ generatePreviewResult(last.projectId, last.userId, TRUE,
                           InOrder(PreviewOutputs)) = "ok"

----------------------------------------------------------------------------
(* Properties of the generation guards *)

GenerateOps == {"generatePreview", "generateFullSet", "router.generatePreview"}

(* C15: a generatePreview or generateFullSet call on a Project that has no
   TrainingModel, or whose TrainingModel is not completed, fails, calls no
   generation provider, creates no Headshot and leaves the Project rows as
   they were. *)
C15_GenerationNeedsCompletedModel ==
  [][(/\ last'.op \in GenerateOps
      /\ full.pc = "idle"
      /\ ~ModelCompleted(last'.projectId))
       => /\ last'.result \notin {"ok", "pending"}
          /\ "generation" \notin last'.calls
          /\ UNCHANGED <<headshots, projects>>]_vars

----------------------------------------------------------------------------
(* Properties of batch analysis *)

AnalyzeOps == {"analyzeProjectPhotos", "router.analyzePhotos"}

(* C16: a batch analysis called by the owner on a Project with no Photo
   fails with "No photos uploaded yet", calls no vision provider, creates
   no CoachingFeedback row and leaves the Project row (status, qualityScore)
   as it was. *)
C16_AnalyzeNeedsPhotos ==
  [][(/\ last'.op \in AnalyzeOps
      /\ Owns(last'.userId, last'.projectId)
      /\ uploadedPhotosLength(last'.projectId) = 0)
       => /\ last'.result = "No photos uploaded yet"
          /\ last'.calls = {}
          /\ UNCHANGED <<coaching, projects>>]_vars

(* the CoachingFeedback type of a feedback dimension *)
CoachingTypeOf(d) ==
  CASE d = "lighting" -> "LIGHTING"
    [] d = "background" -> "BACKGROUND"
    [] d = "expression" -> "EXPRESSION"
    [] d = "angle" -> "ANGLE"
    [] d = "focus" -> "FOCUS"

(* the CoachingFeedback rows the step has created *)
NewCoaching == SubSeq(coaching', Len(coaching) + 1, Len(coaching'))

(* how many of the results rs flag dimension d as poor *)
PoorCount(rs, d) ==
  Cardinality({i \in DOMAIN rs : rs[i].feedback[d] = "poor"})

(* C17: a batch analysis creates, for each of the five feedback dimensions,
   exactly one CoachingFeedback of that dimension when the photos flagged
   poor in it are strictly more than 30% of the photos, and none
   otherwise. *)
C17_OneFeedbackPerPoorDimension ==
  [][(last'.op = "analyzeProjectPhotos" /\ last'.result = "ok")
       => \A d \in Dimensions :
            Cardinality({i \in DOMAIN NewCoaching :
                           NewCoaching[i].type = CoachingTypeOf(d)})
              = IF 10 * PoorCount(last'.results, d) > 3 * Len(last'.results)
                THEN 1 ELSE 0]_vars

(* C18: a batch analysis creates exactly one QUANTITY CoachingFeedback, of
   priority 1, when it analysed fewer than 15 photos, and none when it
   analysed 15 or more, whatever the photos were flagged as. *)
C18_QuantityBelowFifteen ==
  [][(last'.op = "analyzeProjectPhotos" /\ last'.result = "ok")
       => LET quantity == {i \in DOMAIN NewCoaching :
                             NewCoaching[i].type = "QUANTITY"}
          IN /\ Cardinality(quantity)
                  = IF Len(last'.results) < EnoughPhotos THEN 1 ELSE 0
             /\ \A i \in quantity : NewCoaching[i].priority = 1]_vars

(* 15 photos, 5 of them poor on lighting: a LIGHTING item and no QUANTITY
   item *)
C18_Witness ==
  /\ last.op = "analyzeProjectPhotos"
  /\ last.result = "ok"
  /\ Len(last.results) = EnoughPhotos
  /\ PoorCount(last.results, "lighting") = 5
  /\ \E i \in DOMAIN coaching : coaching[i].type = "LIGHTING"
  /\ \A i \in DOMAIN coaching : coaching[i].type # "QUANTITY"

----------------------------------------------------------------------------
(* Properties of polling *)

(* C19: a checkTrainingProgress call that finds the TrainingModel completed
   or failed leaves its status and its modelUrl as they were, whatever the
   provider reports. *)
C19_TerminalTrainingModel ==
  [][(last'.op = "checkTrainingProgress"
      /\ TrainingIdxOf(last'.projectId) # 0
      /\ trainingModels[TrainingIdxOf(last'.projectId)].status
           \in {"completed", "failed"})
       => LET i == TrainingIdxOf(last'.projectId)
          IN /\ trainingModels'[i].status = trainingModels[i].status
             /\ trainingModels'[i].modelUrl = trainingModels[i].modelUrl]_vars

----------------------------------------------------------------------------
(* Properties of the canonical run *)

(* the Headshot rows of project p *)
HeadshotsOf(p) == {i \in DOMAIN headshots : headshots[i].projectId = p}

(* C20: the canonical run ends with 3 preview Headshots and 10 non-preview
   Headshots, exactly 10 Headshots marked top pick, the TrainingModel
   completed with a model reference, and the Project completed with
   completedAt set and totalGenerated = 10. *)
C20_CanonicalRun ==
  (last.op = "generateFullSet" /\ last.result = "ok")
    => LET p == last.projectId
           tm == trainingModels[TrainingIdxOf(p)]
       IN /\ Cardinality({i \in HeadshotsOf(p) : headshots[i].isPreview}) = 3
          /\ Cardinality({i \in HeadshotsOf(p) : ~headshots[i].isPreview}) = 10
          /\ Cardinality({i \in HeadshotsOf(p) : headshots[i].isTopPick}) = 10
          /\ tm.status = "completed"
          /\ tm.modelUrl # NULL
          /\ projects[p].status = "completed"
          /\ projects[p].completedAt
          /\ projects[p].totalGenerated = 10

(* the run has ended, the creates of the full set having completed in the
   reverse of the image order *)
C20_Witness ==
  /\ last.op = "generateFullSet"
  /\ last.result = "ok"
  /\ Len(headshots) = 13
  /\ headshots[4].img = 10
  /\ projects[last.projectId].status = "completed"

----------------------------------------------------------------------------
(* Interleaved calls *)

(* the TrainingModel rows of project p holding provider job j *)
RowsOfJob(p, j) ==
  {i \in 1..Len(trainingModels) :
     trainingModels[i].projectId = p /\ trainingModels[i].replicateId = j}

(* C21: startTraining calls on one project that interleave are not
   serialized: every call that passed the photo-count check and whose
   provider call returned writes a TrainingModel row of its own, whatever
   rows the project already has, and returns successfully, so two calls
   that both read the project before either writes leave two rows *)
C21_RacingStartsBothSucceed ==
  [][\A f \in inflight :
       /\ (f.op = "startTraining" /\ f.pc = "create" /\ f \notin inflight')
            => /\ Len(trainingModels') = Len(trainingModels) + 1
               /\ RowsOfJob(f.projectId, f.replicateId)' # {}
       /\ (f.op = "startTraining" /\ f.pc = "update" /\ f \notin inflight')
            => /\ last'.op = "startTraining" /\ last'.result = "ok"
               /\ RowsOfJob(f.projectId, f.replicateId)' # {}]_vars

(* two calls have returned; the call that reached the provider second wrote
   its row first, so both had read the project before either wrote *)
C21_Witness ==
  /\ inflight = {}
  /\ Len(trainingModels) = 2
  /\ trainingModels[1].projectId = trainingModels[2].projectId
  /\ trainingModels[1].replicateId = 2
  /\ trainingModels[2].replicateId = 1
  /\ last.op = "startTraining" /\ last.result = "ok"

(* C29: whenever no uploadPhoto call on a project is in progress, the
   project's photoCount equals the number of its Photo rows, whether the
   completed calls ran one after another or interleaved *)
C29_PhotoCountMatchesRows ==
  \A p \in DOMAIN projects :
    FramesOf("uploadPhoto", p) = {}
      => projects[p].photoCount = uploadedPhotosLength(p)

(* two uploads of one project have returned and none is in progress *)
C29_Witness ==
  \E p \in DOMAIN projects :
    /\ FramesOf("uploadPhoto", p) = {}
    /\ uploadedPhotosLength(p) = 2
    /\ projects[p].photoCount = 2
    /\ last.op = "uploadPhoto" /\ last.result = "ok"

----------------------------------------------------------------------------
(* The loop over styles *)

(* the rows of the j-th style of the generateFullSet call in progress *)
StyleRows(j) ==
  {i \in DOMAIN headshots :
     /\ headshots[i].projectId = full.projectId
     /\ headshots[i].style = full.styles[j]
     /\ ~headshots[i].isPreview}

(* C22: within one generateFullSet the styles are processed in sequence:
   the generation call of a style is issued only when every image of every
   earlier style has been uploaded, persisted and pushed to allHeadshots,
   and a row that is created belongs to the style whose turn it is *)
C22_StylesInSequence ==
  [][/\ (full.pc = "running" /\ full'.pc = "saving")
        => /\ \A j \in 1..(full.k - 1) :
                Cardinality(StyleRows(j)) = full.numPerStyle
           /\ Len(full.allHeadshots) = (full.k - 1) * full.numPerStyle
     /\ (Len(headshots') > Len(headshots))
        => /\ full.pc \in {"saving", "rejected"}
           /\ headshots'[Len(headshots')].style = full.styles[full.k]]_vars

(* the second style's turn, with its second image persisted before its
   first *)
C22_Witness ==
  /\ full.pc = "saving"
  /\ full.k = 2
  /\ full.saved # <<>>
  /\ full.saved[1][1] = 2
  /\ 1 \in full.pending
  /\ Cardinality(StyleRows(1)) = full.numPerStyle

----------------------------------------------------------------------------
(* Preview batches *)

(* the rows a step has appended to the Headshot table *)
Appended ==
  IF Len(headshots') >= Len(headshots)
     /\ SubSeq(headshots', 1, Len(headshots)) = headshots
  THEN SubSeq(headshots', Len(headshots) + 1, Len(headshots'))
  ELSE <<>>

(* C23: a generatePreview whose batch has an image that fails to upload
   fails; the rows it created for the images that were uploaded stay in the
   Headshot table, and it writes nothing to the Project, so it does not set
   preview_ready.  Only a call that persisted all three rows returns and
   sets preview_ready *)
C23_PartialPreviewBatch ==
  [][(last'.op = "generatePreview" /\ last' # last)
       => /\ SubSeq(headshots', 1, Len(headshots)) = headshots
          /\ \A i \in DOMAIN Appended :
               Appended[i].isPreview /\ Appended[i].projectId = last'.projectId
          /\ last'.result = "Upload from URL failed"
               => /\ Len(Appended) < PreviewOutputs
                  /\ projects' = projects
          /\ last'.result = "ok"
               => /\ Len(Appended) = PreviewOutputs
                  /\ projects'[last'.projectId].status = "preview_ready"]_vars

(* a preview failed on an upload, two of its rows are in the table and the
   project is still in the status startTraining gave it *)
C23_Witness ==
  /\ last.op = "generatePreview"
  /\ last.result = "Upload from URL failed"
  /\ Len(headshots) = 2
  /\ \A i \in DOMAIN headshots : headshots[i].isPreview
  /\ projects[last.projectId].status = "generating_preview"

----------------------------------------------------------------------------
(* Properties of the successful calls *)

(* C24: a batch analysis of a project with at least one photo that
   succeeds, from whatever status, creates one
   CoachingFeedback row per suggestion derived from the photos' results,
   sets Project.qualityScore to the mean of the per-photo scores and sets
   Project.status to ready *)
C24_AnalysisPersistsAndReady ==
  [][(/\ last'.op \in AnalyzeOps
      /\ last'.result = "ok"
      /\ uploadedPhotosLength(last'.projectId) >= 1)
       => LET p == last'.projectId
              rs == last'.results
          IN /\ projects'[p].status = "ready"
             /\ Len(rs) = uploadedPhotosLength(p)
             /\ projects'[p].qualityScore = Quotient(SumScores(rs), Len(rs))
             /\ Len(NewCoaching) = Len(generateCoachingSuggestions(rs))]_vars

(* C25: a startTraining that succeeds creates one TrainingModel row, in
   status training and holding the provider's job id, and moves
   Project.status to training *)
C25_StartCreatesRowAndTraining ==
  [][(last'.op \in StartOps /\ last'.result = "ok")
       => LET p == last'.projectId
          IN /\ Len(trainingModels') = Len(trainingModels) + 1
             /\ trainingModels'[Len(trainingModels')] =
                  [projectId |-> p, replicateId |-> jobs', status |-> "training",
                   progress |-> 0, modelUrl |-> NULL, completedAt |-> FALSE]
             /\ projects'[p].status = "training"]_vars

(* C26: a checkTrainingProgress poll leaves the TrainingModel in one of the
   three mapped statuses and records the model reference and the completion
   timestamp exactly when it yields completed: a poll that yields completed
   leaves both set, a poll that yields failed or training changes neither *)
C26_RecordsOnCompletingPoll ==
  [][(last'.op = "checkTrainingProgress" /\ last'.result = "ok")
       => LET i == TrainingIdxOf(last'.projectId)
          IN /\ trainingModels'[i].status \in {"completed", "failed", "training"}
             /\ trainingModels'[i].status = "completed"
                  => /\ trainingModels'[i].modelUrl # NULL
                     /\ trainingModels'[i].completedAt
             /\ trainingModels'[i].status # "completed"
                  => /\ trainingModels'[i].modelUrl = trainingModels[i].modelUrl
                     /\ trainingModels'[i].completedAt
                          = trainingModels[i].completedAt]_vars

(* the projects a step moves to status completed *)
Completing ==
  {q \in DOMAIN projects :
     /\ q \in DOMAIN projects'
     /\ projects[q].status # "completed"
     /\ projects'[q].status = "completed"}

(* C27: a generateFullSet that passes its checks first sets
   generating_full; the project is set to completed only by the step that
   ends the call, when every style has all its rows and the top picks are
   marked, and that step sets completedAt and sets totalGenerated to the
   number of rows the call created; a call that returns has done so *)
C27_CompletedOnlyAtTheEnd ==
  [][LET p == full.projectId
         created == UNION {StyleRows(j) : j \in 1..Len(full.styles)}
     IN
     /\ (full.pc = "idle" /\ full'.pc = "running")
          => projects'[full'.projectId].status = "generating_full"
     /\ \A q \in Completing :
          /\ q = p
          /\ full.pc = "running" /\ full'.pc = "idle"
          /\ \A j \in 1..Len(full.styles) :
               Cardinality(StyleRows(j)) = full.numPerStyle
          /\ Cardinality({i \in created : headshots'[i].isTopPick})
               = Min(TopPickLimit, Cardinality(created))
          /\ projects'[p].completedAt
          /\ projects'[p].totalGenerated = Cardinality(created)
     /\ (last'.op = "generateFullSet" /\ last'.result = "ok" /\ last' # last)
          => p \in Completing]_vars

(* a call of two styles has returned: four rows, all top picks *)
C27_Witness ==
  /\ last.op = "generateFullSet"
  /\ last.result = "ok"
  /\ full.pc = "idle"
  /\ projects[last.projectId].status = "completed"
  /\ projects[last.projectId].completedAt
  /\ projects[last.projectId].totalGenerated = 2 * PairPerStyle
  /\ Len(headshots) = 2 * PairPerStyle
  /\ \A i \in DOMAIN headshots : headshots[i].isTopPick

----------------------------------------------------------------------------
(* Vision provider failures *)

(* the neutral result: 7.0, the five dimensions good, approved *)
Neutral(r) ==
  /\ r.qualityScore = 70
  /\ \A d \in Dimensions : r.feedback[d] = "good"
  /\ r.approved

(* C28: when the vision provider throws, uploadPhoto and
   analyzeProjectPhotos do not fail: each analysis is replaced with the
   neutral result and the call completes and persists as on success.  An
   upload that reached the vision provider adds one approved Photo row of
   score 7.0 and increments photoCount; a batch analysis returns, has a
   neutral result for every photo, writes the mean 7.0 and status ready and
   creates the CoachingFeedback rows derived from the neutral results *)
C28_VisionErrorAbsorbed ==
  [][LET p == last'.projectId
     IN
     /\ (last'.op = "uploadPhoto" /\ "vision" \in last'.calls)
          => /\ last'.result = "ok"
             /\ photos' = photos (+) SetToBag({[projectId |-> p,
                                                 qualityScore |-> 70,
                                                 isApproved |-> TRUE]})
             /\ projects'[p].photoCount = projects[p].photoCount + 1
     /\ (last'.op = "analyzeProjectPhotos" /\ uploadedPhotosLength(p) >= 1
           /\ Owns(last'.userId, p))
          => /\ last'.result = "ok"
             /\ Len(last'.results) = uploadedPhotosLength(p)
             /\ \A i \in DOMAIN last'.results : Neutral(last'.results[i])
             /\ projects'[p].qualityScore = [sum |-> 70, n |-> 1]
             /\ projects'[p].status = "ready"
             /\ Len(NewCoaching)
                  = Len(generateCoachingSuggestions(last'.results))]_vars

(* a batch analysis of three photos has returned with the provider down *)
C28_Witness ==
  /\ last.op = "analyzeProjectPhotos"
  /\ last.result = "ok"
  /\ Len(last.results) = 3
  /\ projects[last.projectId].status = "ready"
  /\ projects[last.projectId].qualityScore = [sum |-> 70, n |-> 1]
  /\ \A r \in BagToSet(photos) : r.qualityScore = 70 /\ r.isApproved
  /\ coaching # <<>>

----------------------------------------------------------------------------
(* Repeated full sets *)

(* C30: whenever no generateFullSet call is in progress, whatever calls
   have been made on a Project, at most 20 of its Headshots are top picks
   and its totalGenerated is the number of its non-preview Headshot rows *)
C30_TopPicksAndTotalOverCalls ==
  full.pc = "idle"
    => \A p \in DOMAIN projects :
         /\ Cardinality({i \in HeadshotsOf(p) : headshots[i].isTopPick})
              <= TopPickLimit
         /\ projects[p].totalGenerated = Cardinality(FullRowsOf(p))

====
